---- MODULE Spec2Model ----
(***************************************************************************)
(* State-machine model of include/hermite_multidimensional.hpp: the index  *)
(* flattener vec2index, the position enumerator update_iterator, and the   *)
(* tensor fills hermite_multidimensional_cpp, interferometer_cpp,          *)
(* squeezing_cpp and two_mode_squeezing_cpp.                               *)
(*                                                                         *)
(* Vectors and arrays are functions on 0..n-1, as in the source.           *)
(***************************************************************************)
EXTENDS Integers, Sequences, FiniteSets, TLC

\* ---- bounds of the model ------------------------------------------------
MaxDim == 4
MaxDimH == 3
MaxRes == 4
MaxCells == 16

VARIABLES variant, R, y, resolution, dim, Hdim, pc, allocated, H, defined,
          nextPos, jumpFrom, jump, k, jj, nextCoordinate, fromCoordinate,
          visited, kHist, accepted, base, low_lim, high_lim

vars == <<variant, R, y, resolution, dim, Hdim, pc, allocated, H, defined,
          nextPos, jumpFrom, jump, k, jj, nextCoordinate, fromCoordinate,
          visited, kHist, accepted, base, low_lim, high_lim>>

\* ---- helpers --------------------------------------------------------------
RECURSIVE pow(_, _)
pow(b, e) == IF e = 0 THEN 1 ELSE b * pow(b, e - 1)

Ones(d) == [i \in 0..d-1 |-> 1]

Box(d, res) == [0..d-1 -> 1..res]

\* jumpFrom - prevJump with prevJump = e_ii (std::transform ... std::minus)
MinusUnit(v, ii) == [v EXCEPT ![ii] = @ - 1]

\* ---- Index Flattener ------------------------------------------------------
vec2index_rev(pos, res) ==
    LET d == Cardinality(DOMAIN pos)
        RECURSIVE loop(_, _)
        loop(ii, nc) == IF ii < d - 1
                        THEN loop(ii + 1, nc * res + (pos[d - 2 - ii] - 1))
                        ELSE nc
    IN  loop(0, pos[d - 1] - 1)

vec2index(pos, res) ==
    LET d == Cardinality(DOMAIN pos)
        RECURSIVE loop(_, _)
        loop(ii, nc) == IF ii < d - 1
                        THEN loop(ii + 1, nc * res + (pos[ii + 1] - 1))
                        ELSE nc
    IN  loop(0, pos[0] - 1)

\* ---- Position Enumerator --------------------------------------------------
\* the lowest axis where nextPos and jumpFrom differ (dim when none does)
FirstDiff(np, jf, d) ==
    IF \E i \in 0..d-1 : np[i] # jf[i]
    THEN CHOOSE i \in 0..d-1 : np[i] # jf[i] /\ \A j \in 0..i-1 : np[j] = jf[j]
    ELSE d

\* mutant: the overflow test is off by one (>= for >)
RECURSIVE Scan_ge(_, _, _, _, _, _)
Scan_ge(ii, np, jf, jmp, res, d) ==
    IF ii >= d THEN [nextPos |-> np, jumpFrom |-> jf, jump |-> jmp]
    ELSE IF 1 + np[ii] >= res
         THEN Scan_ge(ii + 1, [np EXCEPT ![ii] = 1], [jf EXCEPT ![ii] = 1], ii + 1, res, d)
         ELSE [nextPos  |-> [np EXCEPT ![ii] = np[ii] + 1],
               jumpFrom |-> [jf EXCEPT ![ii] = np[ii]],
               jump     |-> jmp]

\* the for loop of update_iterator, from axis ii on
RECURSIVE Scan(_, _, _, _, _, _)
Scan(ii, np, jf, jmp, res, d) ==
    IF ii >= d THEN [nextPos |-> np, jumpFrom |-> jf, jump |-> jmp]
    ELSE IF 1 + np[ii] > res
         THEN Scan(ii + 1, [np EXCEPT ![ii] = 1], [jf EXCEPT ![ii] = 1], ii + 1, res, d)
         ELSE [nextPos  |-> [np EXCEPT ![ii] = np[ii] + 1],
               jumpFrom |-> [jf EXCEPT ![ii] = np[ii]],
               jump     |-> jmp]

\* mutant: the deferred +1 on jumpFrom[jump] is forgotten
update_iterator_nodefer(np, jf, jmp, res, d) ==
    LET s == Scan(0, np, jf, 0, res, d)
    IN  [nextPos |-> s.nextPos, jumpFrom |-> s.jumpFrom, jump |-> s.jump,
         k |-> FirstDiff(s.nextPos, s.jumpFrom, d)]

\* mutant: the deferred adjustment overshoots by one
update_iterator_over(np, jf, jmp, res, d) ==
    LET jf0 == IF jmp > 0 /\ jmp < d THEN [jf EXCEPT ![jmp] = @ + 2] ELSE jf
        s   == Scan(0, np, jf0, 0, res, d)
    IN  [nextPos |-> s.nextPos, jumpFrom |-> s.jumpFrom, jump |-> s.jump,
         k |-> FirstDiff(s.nextPos, s.jumpFrom, d)]

\* jump = d (every axis overflowed) only arises on call resolution^dim, which
\* no fill makes; jumpFrom[dim] would be out of bounds there.
update_iterator(np, jf, jmp, res, d) ==
    LET jf0 == IF jmp > 0 /\ jmp < d THEN [jf EXCEPT ![jmp] = @ + 1] ELSE jf
        s   == Scan(0, np, jf0, 0, res, d)
    IN  [nextPos |-> s.nextPos, jumpFrom |-> s.jumpFrom, jump |-> s.jump,
         k |-> FirstDiff(s.nextPos, s.jumpFrom, d)]

\* one pass of the loop head shared by every fill: advance the enumerator
\* and flatten the two positions
Advance ==
    LET u == update_iterator(nextPos, jumpFrom, jump, resolution, dim)
    IN  /\ nextPos' = u.nextPos
        /\ jumpFrom' = u.jumpFrom
        /\ jump' = u.jump
        /\ k' = u.k
        /\ jj' = jj + 1
        /\ nextCoordinate' = vec2index(u.nextPos, resolution)
        /\ fromCoordinate' = vec2index(u.jumpFrom, resolution)
        /\ visited' = Append(visited, u.nextPos)
        /\ kHist' = Append(kHist, u.k)

\* ---- the enumerator driven on its own -------------------------------------
IterInit ==
    /\ variant = "iterator"
    /\ dim \in 1..MaxDim
    /\ resolution \in 1..MaxRes
    /\ Hdim = pow(resolution, dim)
    /\ R = << >> /\ y = << >>
    /\ pc = "loop"
    /\ allocated = FALSE
    /\ H = << >> /\ defined = {}
    /\ nextPos = Ones(dim) /\ jumpFrom = Ones(dim) /\ jump = 0
    /\ k = 0 /\ jj = 0
    /\ nextCoordinate = 0 /\ fromCoordinate = 0
    /\ visited = << >> /\ kHist = << >>
    /\ accepted = FALSE /\ base = 0 /\ low_lim = 0 /\ high_lim = 0

IterStep ==
    /\ variant = "iterator"
    /\ pc = "loop"
    /\ jj < Hdim - 1
    /\ Advance
    /\ UNCHANGED <<variant, R, y, resolution, dim, Hdim, pc, allocated, H,
                   defined, accepted, base, low_lim, high_lim>>

IterNext == IterStep

SpecIter == IterInit /\ [][IterNext]_vars

\* ---- tensor memory ---------------------------------------------------------
\* H = malloc(sizeof(T)*Hdim) followed by memset(H, sizeof(val), sizeof(H)):
\* the memset fills only the first sizeof(H) bytes (the size of a pointer),
\* and fills them with the byte sizeof(val), not with 0.  Every cell but the
\* first is left as malloc returned it, and the first is overwritten by the
\* seed.  A cell is in `defined' once its content is fixed: written by the
\* fill, or read or handed to the caller while still holding whatever malloc
\* left there, which is any value of Garbage.
Garbage == {0, 1}

Cells == 0..(Hdim - 1)

\* the tensor as the fill sees it once the cells of rd hold the contents g
Observe(Hc, rd, g) == [c \in DOMAIN Hc |-> IF c \in rd THEN g[c] ELSE Hc[c]]

\* dim = std::sqrt(R.size())
Isqrt(n) == CHOOSE r \in 0..n : r * r <= n /\ (r + 1) * (r + 1) > n

\* for (jj = 0; jj < Hdim-1; jj++) has ended: return H.  The caller receives
\* every cell, the never-written ones with their malloc content.
ReturnH ==
    /\ pc = "loop"
    /\ ~(jj < Hdim - 1)
    /\ \E g \in [Cells \ defined -> Garbage] :
          /\ H' = Observe(H, Cells \ defined, g)
          /\ defined' = Cells
    /\ pc' = "returned"
    /\ UNCHANGED <<variant, R, y, resolution, dim, Hdim, allocated, nextPos,
                   jumpFrom, jump, k, jj, nextCoordinate, fromCoordinate,
                   visited, kHist, accepted, base, low_lim, high_lim>>

\* ---- hermite_multidimensional_cpp -----------------------------------------
HVals(d) == IF d <= 2 THEN {-1, 0, 1, 2} ELSE {0, 1}

SymMatrices(d, vals) ==
    {m \in [0..(d*d - 1) -> vals] :
        \A i \in 0..d-1 : \A j \in 0..d-1 : m[i*d + j] = m[j*d + i]}

\* the cells one loop pass of hermite_multidimensional_cpp reads
HermiteReads(np, jf, res, d) ==
    {vec2index(jf, res)} \cup
    {vec2index(MinusUnit(jf, ii), res) : ii \in {i \in 0..d-1 : jf[i] > 1}}

\* mutant: the correction weight is jumpFrom[ii] instead of jumpFrom[ii]-1
HermiteEntry_weight(Hc, np, jf, kk, Rm, yv, res, d) ==
    LET nc == vec2index(np, res)
        fc == vec2index(jf, res)
        RECURSIVE corr(_, _)
        corr(ii, Hx) ==
            IF ii >= d THEN Hx
            ELSE IF jf[ii] > 1
                 THEN LET pc0 == vec2index(MinusUnit(jf, ii), res)
                      IN  corr(ii + 1, [Hx EXCEPT ![nc] =
                                 Hx[nc] - jf[ii] * Rm[d*kk + ii] * Hx[pc0]])
                 ELSE corr(ii + 1, Hx)
    IN  corr(0, [Hc EXCEPT ![nc] = Hc[fc] * yv[kk]])

\* mutant: the linear term always takes y[0]
HermiteEntry_y0(Hc, np, jf, kk, Rm, yv, res, d) ==
    LET nc == vec2index(np, res)
        fc == vec2index(jf, res)
        RECURSIVE corr(_, _)
        corr(ii, Hx) ==
            IF ii >= d THEN Hx
            ELSE IF jf[ii] > 1
                 THEN LET pc0 == vec2index(MinusUnit(jf, ii), res)
                      IN  corr(ii + 1, [Hx EXCEPT ![nc] =
                                 Hx[nc] - (jf[ii] - 1) * Rm[d*kk + ii] * Hx[pc0]])
                 ELSE corr(ii + 1, Hx)
    IN  corr(0, [Hc EXCEPT ![nc] = Hc[fc] * yv[0]])

\* the body of the loop after update_iterator: the base term and the
\* correction sum, written into H[nextCoordinate]
HermiteEntry(Hc, np, jf, kk, Rm, yv, res, d) ==
    LET nc == vec2index(np, res)
        fc == vec2index(jf, res)
        RECURSIVE corr(_, _)
        corr(ii, Hx) ==
            IF ii >= d THEN Hx
            ELSE IF jf[ii] > 1
                 THEN LET pc0 == vec2index(MinusUnit(jf, ii), res)
                      IN  corr(ii + 1, [Hx EXCEPT ![nc] =
                                 Hx[nc] - (jf[ii] - 1) * Rm[d*kk + ii] * Hx[pc0]])
                 ELSE corr(ii + 1, Hx)
    IN  corr(0, [Hc EXCEPT ![nc] = Hc[fc] * yv[kk]])

\* n further passes of the loop
RECURSIVE HermiteRun(_, _, _, _, _, _, _, _, _)
HermiteRun(Hc, np, jf, jmp, n, Rm, yv, res, d) ==
    IF n = 0 THEN Hc
    ELSE LET u == update_iterator(np, jf, jmp, res, d)
         IN  HermiteRun(HermiteEntry(Hc, u.nextPos, u.jumpFrom, u.k, Rm, yv, res, d),
                        u.nextPos, u.jumpFrom, u.jump, n - 1, Rm, yv, res, d)

\* the whole call as a function of its arguments.  No pass reads a cell that
\* was not written before (HermiteReadsWritten), so the content malloc left
\* in the cells does not reach the result; it is taken as 0 here.
hermite_multidimensional_cpp(Rm, yv, res) ==
    LET d == Isqrt(Cardinality(DOMAIN Rm))
        n == pow(res, d)
    IN  HermiteRun([c \in 0..(n - 1) |-> IF c = 0 THEN 1 ELSE 0],
                   Ones(d), Ones(d), 0, n - 1, Rm, yv, res, d)

HermiteInit ==
    /\ variant = "hermite"
    /\ dim \in 1..MaxDimH
    /\ resolution \in 1..MaxRes
    /\ pow(resolution, dim) <= MaxCells
    /\ R \in SymMatrices(dim, HVals(dim))
    /\ y \in [0..dim-1 -> HVals(dim)]
    /\ Hdim = 0
    /\ pc = "entry"
    /\ allocated = FALSE
    /\ H = << >> /\ defined = {}
    /\ nextPos = << >> /\ jumpFrom = << >> /\ jump = 0
    /\ k = 0 /\ jj = 0
    /\ nextCoordinate = 0 /\ fromCoordinate = 0
    /\ visited = << >> /\ kHist = << >>
    /\ accepted = FALSE /\ base = 0 /\ low_lim = 0 /\ high_lim = 0

HermiteBegin ==
    /\ variant = "hermite"
    /\ pc = "entry"
    /\ Hdim' = pow(resolution, Isqrt(Cardinality(DOMAIN R)))
    /\ allocated' = TRUE
    /\ H' = [c \in 0..(Hdim' - 1) |-> IF c = 0 THEN 1 ELSE 0]
    /\ defined' = {0}
    /\ nextPos' = Ones(dim) /\ jumpFrom' = Ones(dim) /\ jump' = 0
    /\ pc' = "loop"
    /\ UNCHANGED <<variant, R, y, resolution, dim, k, jj, nextCoordinate,
                   fromCoordinate, visited, kHist, accepted, base, low_lim,
                   high_lim>>

HermiteStep ==
    /\ variant = "hermite"
    /\ pc = "loop"
    /\ jj < Hdim - 1
    /\ Advance
    /\ LET rd == HermiteReads(nextPos', jumpFrom', resolution, dim) \ defined
       IN  \E g \in [rd -> Garbage] :
              /\ H' = HermiteEntry(Observe(H, rd, g), nextPos', jumpFrom', k',
                                   R, y, resolution, dim)
              /\ defined' = defined \cup rd \cup {nextCoordinate'}
    /\ UNCHANGED <<variant, R, y, resolution, dim, Hdim, pc, allocated,
                   accepted, base, low_lim, high_lim>>

HermiteReturn == variant = "hermite" /\ ReturnH

HermiteNext == HermiteBegin \/ HermiteStep \/ HermiteReturn

SpecHermite == HermiteInit /\ [][HermiteNext]_vars

\* ---- arithmetic of the normalized fills -----------------------------------
\* The normalized fills compute in T (double or complex) with sqrt and
\* division.  Their values are modelled in the prime field Z/P, where every
\* integer 0..5 and -1 has a square root, so that intsqrt[i]*intsqrt[i] = i,
\* a/b*b = a and x - x = 0 hold exactly as they do in the reals.
P == 241

FNeg(a) == (P - a) % P

FSub(a, b) == (a + P - b) % P

FMul(a, b) == (a * b) % P

FDiv(a, b) == FMul(a, CHOOSE z \in 1..(P - 1) : (z * b) % P = 1)

\* std::sqrt: the least root
FSqrt(a) == CHOOSE z \in 0..(P - 1) :
               (z * z) % P = a /\ \A w \in 0..(z - 1) : (w * w) % P # a

\* intsqrt[ii] = std::sqrt(ii) for ii = 0..resolution
intsqrt(res) == [ii \in 0..res |-> FSqrt(ii % P)]

\* the symmetric matrices the R-only fills are run on: one value on the
\* diagonal, one off it (P-1 is -1)
RFamily(d) ==
    {[c \in 0..(d*d - 1) |-> IF c \div d = c % d THEN dg ELSE og] :
        dg \in {0, 1}, og \in {1, P - 1}}

\* the positions jumpFrom - e_ii the correction loop over low..high-1 reads
NormReads(jf, res, low, high) ==
    {vec2index(MinusUnit(jf, ii), res) : ii \in {i \in low..(high - 1) : jf[i] > 1}}

\* the correction loop of the normalized fills, over the axes low..high-1
NormCorrection(Hc, np, jf, kk, Rm, res, d, low, high) ==
    LET nc == vec2index(np, res)
        sq == intsqrt(res)
        RECURSIVE corr(_, _)
        corr(ii, Hx) ==
            IF ii >= high THEN Hx
            ELSE IF jf[ii] > 1
                 THEN LET pc0 == vec2index(MinusUnit(jf, ii), res)
                      IN  corr(ii + 1, [Hx EXCEPT ![nc] =
                             FSub(Hx[nc],
                                  FMul(FMul(FDiv(sq[jf[ii] - 1], sq[np[kk] - 1]),
                                            Rm[kk*d + ii]),
                                       Hx[pc0]))])
                 ELSE corr(ii + 1, Hx)
    IN  corr(low, Hc)

RECURSIVE SumRange(_, _, _)
SumRange(v, a, b) == IF a >= b THEN 0 ELSE v[a] + SumRange(v, a + 1, b)

VariantInit ==
    /\ variant \in {"interferometer", "squeezing", "two_mode_squeezing"}
    /\ dim \in 1..MaxDim
    /\ resolution \in 1..MaxRes
    /\ pow(resolution, dim) <= MaxCells
    /\ R \in RFamily(dim)
    /\ y = << >>
    /\ Hdim = 0
    /\ pc = "entry"
    /\ allocated = FALSE
    /\ H = << >> /\ defined = {}
    /\ nextPos = << >> /\ jumpFrom = << >> /\ jump = 0
    /\ k = 0 /\ jj = 0
    /\ nextCoordinate = 0 /\ fromCoordinate = 0
    /\ visited = << >> /\ kHist = << >>
    /\ accepted = FALSE /\ base = 0 /\ low_lim = 0 /\ high_lim = 0

\* one loop pass of a fill guarded by a selection rule: advance, then, when
\* the rule accepts nextPos, run the correction loop over low..high-1 on
\* H[nextCoordinate].  No pass assigns H[fromCoordinate]*coeff to the entry:
\* fromCoordinate is computed and not used.  base records the content of
\* H[nextCoordinate] when the correction loop starts.
GuardedPass(acc, low, high) ==
    /\ Advance
    /\ accepted' = acc
    /\ IF acc
       THEN LET rd == ({nextCoordinate', fromCoordinate'}
                        \cup NormReads(jumpFrom', resolution, low, high)) \ defined
            IN  \E g \in [rd -> Garbage] :
                   /\ base' = Observe(H, rd, g)[nextCoordinate']
                   /\ H' = NormCorrection(Observe(H, rd, g), nextPos', jumpFrom',
                                          k', R, resolution, dim, low, high)
                   /\ defined' = defined \cup rd
       ELSE UNCHANGED <<H, defined, base>>
    /\ UNCHANGED <<variant, R, y, resolution, dim, Hdim, pc, allocated>>

\* ---- interferometer_cpp ---------------------------------------------------
\* bran == ketn
interferometer_accept(np, num_modes, d) ==
    SumRange(np, 0, num_modes) = SumRange(np, num_modes, d)

\* mutant: the test on k is reversed
interferometer_limits_flip(kk, num_modes, d) ==
    IF kk < num_modes THEN [low_lim |-> 0, high_lim |-> num_modes]
    ELSE [low_lim |-> num_modes, high_lim |-> d]

interferometer_limits(kk, num_modes, d) ==
    IF kk > num_modes THEN [low_lim |-> 0, high_lim |-> num_modes]
    ELSE [low_lim |-> num_modes, high_lim |-> d]

InterferometerBegin ==
    /\ variant = "interferometer"
    /\ pc = "entry"
    /\ IF dim % 2 = 0
       THEN /\ Hdim' = pow(resolution, dim)
            /\ allocated' = TRUE
            /\ H' = [c \in 0..(Hdim' - 1) |-> IF c = 0 THEN 1 ELSE 0]
            /\ defined' = {0}
            /\ nextPos' = Ones(dim) /\ jumpFrom' = Ones(dim) /\ jump' = 0
            /\ pc' = "loop"
       ELSE /\ pc' = "aborted"
            /\ UNCHANGED <<Hdim, allocated, H, defined, nextPos, jumpFrom, jump>>
    /\ UNCHANGED <<variant, R, y, resolution, dim, k, jj, nextCoordinate,
                   fromCoordinate, visited, kHist, accepted, base, low_lim,
                   high_lim>>

InterferometerStep ==
    /\ variant = "interferometer"
    /\ pc = "loop"
    /\ jj < Hdim - 1
    /\ LET num_modes == dim \div 2
           u   == update_iterator(nextPos, jumpFrom, jump, resolution, dim)
           acc == interferometer_accept(u.nextPos, num_modes, dim)
           lim == interferometer_limits(u.k, num_modes, dim)
       IN  /\ GuardedPass(acc, lim.low_lim, lim.high_lim)
           /\ IF acc
              THEN low_lim' = lim.low_lim /\ high_lim' = lim.high_lim
              ELSE UNCHANGED <<low_lim, high_lim>>

InterferometerReturn == variant = "interferometer" /\ ReturnH

\* ---- squeezing_cpp --------------------------------------------------------
\* bran % 2 == ketn % 2
squeezing_accept(np) == np[0] % 2 = np[1] % 2

\* The buffer is allocated and the seed sqrt(-R[1]) written before
\* assert(dim == 2) is reached.  With dim = 1, R has one element and R[1] is
\* read past its end: any value.
SqueezingBegin ==
    /\ variant = "squeezing"
    /\ pc = "entry"
    /\ Hdim' = pow(resolution, dim)
    /\ allocated' = TRUE
    /\ \E r1 \in (IF 1 \in DOMAIN R THEN {R[1]} ELSE Garbage) :
          H' = [c \in 0..(Hdim' - 1) |-> IF c = 0 THEN FSqrt(FNeg(r1)) ELSE 0]
    /\ defined' = {0}
    /\ nextPos' = Ones(dim) /\ jumpFrom' = Ones(dim) /\ jump' = 0
    /\ pc' = IF dim = 2 THEN "loop" ELSE "aborted"
    /\ UNCHANGED <<variant, R, y, resolution, dim, k, jj, nextCoordinate,
                   fromCoordinate, visited, kHist, accepted, base, low_lim,
                   high_lim>>

SqueezingStep ==
    /\ variant = "squeezing"
    /\ pc = "loop"
    /\ jj < Hdim - 1
    /\ LET u == update_iterator(nextPos, jumpFrom, jump, resolution, dim)
       IN  GuardedPass(squeezing_accept(u.nextPos), 0, dim)
    /\ UNCHANGED <<low_lim, high_lim>>

SqueezingReturn == variant = "squeezing" /\ ReturnH

\* ---- two_mode_squeezing_cpp -----------------------------------------------
\* nextPos[0]-nextPos[1] == nextPos[2]-nextPos[3]
two_mode_accept(np) == np[0] - np[1] = np[2] - np[3]

\* after the memset, a loop sets every H[jj] to 0.0: no cell keeps its
\* malloc content
TwoModeBegin ==
    /\ variant = "two_mode_squeezing"
    /\ pc = "entry"
    /\ IF dim = 4
       THEN /\ Hdim' = pow(resolution, dim)
            /\ allocated' = TRUE
            /\ H' = [c \in 0..(Hdim' - 1) |-> IF c = 0 THEN FNeg(R[2]) ELSE 0]
            /\ defined' = 0..(Hdim' - 1)
            /\ nextPos' = Ones(dim) /\ jumpFrom' = Ones(dim) /\ jump' = 0
            /\ pc' = "loop"
       ELSE /\ pc' = "aborted"
            /\ UNCHANGED <<Hdim, allocated, H, defined, nextPos, jumpFrom, jump>>
    /\ UNCHANGED <<variant, R, y, resolution, dim, k, jj, nextCoordinate,
                   fromCoordinate, visited, kHist, accepted, base, low_lim,
                   high_lim>>

TwoModeStep ==
    /\ variant = "two_mode_squeezing"
    /\ pc = "loop"
    /\ jj < Hdim - 1
    /\ LET u == update_iterator(nextPos, jumpFrom, jump, resolution, dim)
       IN  GuardedPass(two_mode_accept(u.nextPos), 0, dim)
    /\ UNCHANGED <<low_lim, high_lim>>

TwoModeReturn == variant = "two_mode_squeezing" /\ ReturnH

VariantNext ==
    \/ InterferometerBegin \/ InterferometerStep \/ InterferometerReturn
    \/ SqueezingBegin \/ SqueezingStep \/ SqueezingReturn
    \/ TwoModeBegin \/ TwoModeStep \/ TwoModeReturn

SpecVariants == VariantInit /\ [][VariantNext]_vars

\* ---- reference notions used by the properties -----------------------------
\* offset = sum_i (pos[i]-1) * resolution^(dim-1-i)
RECURSIVE OffsetSum(_, _, _, _)
OffsetSum(pos, res, d, i) ==
    IF i >= d THEN 0
    ELSE (pos[i] - 1) * pow(res, d - 1 - i) + OffsetSum(pos, res, d, i + 1)

Flat(pos, res, d) == OffsetSum(pos, res, d, 0)

Unflatten(n, res, d) == [i \in 0..d-1 |-> ((n \div pow(res, d - 1 - i)) % res) + 1]

\* the n-th multi-index after all-ones in odometer order, axis 0 fastest
Odometer(n, res, d) == [i \in 0..d-1 |-> ((n \div pow(res, i)) % res) + 1]

Seen(q) == q = Ones(dim) \/ \E n \in 1..(Len(visited) - 1) : visited[n] = q

\* C1: the calls of update_iterator produce, in odometer order with axis 0
\* fastest, every multi-index of [1,resolution]^dim other than all-ones
\* exactly once: the call just made (call number jj) yields the jj-th odometer
\* value, inside the box, not all-ones and not produced by an earlier call,
\* and after resolution^dim - 1 calls the whole box but all-ones has been
\* produced.  (visited only grows, so every earlier call was checked in the
\* state it led to.)
C1_EnumeratorCompleteness ==
    /\ Len(visited) = jj
    /\ jj >= 1 =>
          /\ nextPos = visited[jj]
          /\ visited[jj] = Odometer(jj, resolution, dim)
          /\ visited[jj] \in Box(dim, resolution)
          /\ visited[jj] # Ones(dim)
          /\ \A m \in 1..(jj-1) : visited[m] # visited[jj]
    /\ jj = Hdim - 1 =>
          {visited[n] : n \in 1..Len(visited)} = Box(dim, resolution) \ {Ones(dim)}

C1_Witness ==
    /\ variant = "iterator" /\ dim = 3 /\ resolution = 3
    /\ jj = Hdim - 1 /\ jj = 26
    /\ nextPos = [i \in 0..2 |-> 3]

\* C2: at every step each position the step reads from was produced before:
\* jumpFrom, every jumpFrom - e_i with jumpFrom[i] > 1 and every
\* nextPos - e_i with nextPos[i] > 1 is all-ones or an earlier nextPos.
C2_PredecessorsVisited ==
    jj >= 1 =>
       /\ jumpFrom \in Box(dim, resolution)
       /\ Seen(jumpFrom)
       /\ \A i \in 0..dim-1 : jumpFrom[i] > 1 => Seen(MinusUnit(jumpFrom, i))
       /\ \A i \in 0..dim-1 : nextPos[i] > 1 => Seen(MinusUnit(nextPos, i))

C2_Witness ==
    /\ variant = "iterator" /\ dim >= 3 /\ jj >= 1
    /\ k = 1
    /\ \E i \in 0..dim-1 : i # k /\ jumpFrom[i] > 1
    /\ jumpFrom # Ones(dim)

\* C5: vec2index(pos) = sum_i (pos[i]-1)*resolution^(dim-1-i), and the map is
\* a bijection of [1,resolution]^dim onto 0..resolution^dim - 1 whose inverse
\* is the digit expansion (unflattening recovers pos).
C5_FlattenBijection ==
    /\ jj >= 1 => /\ nextCoordinate = Flat(nextPos, resolution, dim)
                  /\ fromCoordinate = Flat(jumpFrom, resolution, dim)
                  /\ Unflatten(nextCoordinate, resolution, dim) = nextPos
    /\ jj = 0 =>
          /\ \A pos \in Box(dim, resolution) :
                /\ vec2index(pos, resolution) = Flat(pos, resolution, dim)
                /\ vec2index(pos, resolution) \in 0..(Hdim - 1)
                /\ Unflatten(vec2index(pos, resolution), resolution, dim) = pos
          /\ \A n \in 0..(Hdim - 1) :
                /\ Unflatten(n, resolution, dim) \in Box(dim, resolution)
                /\ vec2index(Unflatten(n, resolution, dim), resolution) = n

C5_Witness ==
    /\ variant = "iterator" /\ dim = 3 /\ resolution = 3
    /\ nextPos = (0 :> 1 @@ 1 :> 2 @@ 2 :> 3)
    /\ nextCoordinate = 5

\* C10: after each call the returned k is an axis, it is the axis whose
\* nextPos coordinate the call incremented, and jumpFrom = nextPos - e_k.
C10_JumpFromIsPredecessor ==
    jj >= 1 =>
       /\ k \in 0..dim-1
       /\ nextPos[k] = IF jj = 1 THEN 2 ELSE visited[jj - 1][k] + 1
       /\ \A i \in 0..dim-1 : i > k /\ jj > 1 => nextPos[i] = visited[jj - 1][i]
       /\ jumpFrom = MinusUnit(nextPos, k)

\* the call right after a carry, where the deferred +1 has been applied
C10_Witness ==
    /\ variant = "iterator" /\ dim >= 2 /\ resolution >= 3 /\ jj >= 2
    /\ kHist[jj - 1] >= 1
    /\ k = 0
    /\ jumpFrom[kHist[jj - 1]] >= 2
    /\ jumpFrom = MinusUnit(nextPos, 0)

\* ---- properties of hermite_multidimensional_cpp ---------------------------
\* every cell a pass reads was written by the seed or an earlier pass, and the
\* stepwise fill agrees with the call taken as a function
HermiteReadsWritten ==
    variant = "hermite" /\ pc \in {"loop", "returned"} =>
       /\ defined = {0} \cup {Flat(visited[n], resolution, dim) : n \in 1..Len(visited)}
       /\ pc = "returned" => H = hermite_multidimensional_cpp(R, y, resolution)

\* the correction sum of the recurrence at q for row kk
RECURSIVE CorrSum(_, _, _, _)
CorrSum(Hc, q, kk, i) ==
    IF i >= dim THEN 0
    ELSE (IF q[i] > 1
          THEN (q[i] - 1) * R[kk*dim + i] * Hc[Flat(MinusUnit(q, i), resolution, dim)]
          ELSE 0) + CorrSum(Hc, q, kk, i + 1)

\* C4: the returned tensor has resolution^dim entries, H[0] = 1, and every
\* other multi-index p, with changed axis k and q = p - e_k, satisfies
\* H[flatten(p)] = y[k]*H[flatten(q)] - sum_{i : q_i > 1} (q_i-1)*R[k*dim+i]*
\* H[flatten(q - e_i)]; R=[[0,1],[1,0]], y=[0,0], resolution=2 gives
\* [1,0,0,-1] and dim=1, R=[r], y=[c], resolution=3 gives [1, c, c*c-r].
C4_HermiteRecurrence ==
    variant = "hermite" /\ pc = "returned" =>
       /\ DOMAIN H = 0..(pow(resolution, dim) - 1)
       /\ H[0] = 1
       /\ {visited[n] : n \in 1..Len(visited)} = Box(dim, resolution) \ {Ones(dim)}
       /\ \A n \in 1..Len(visited) :
             LET p  == visited[n]
                 kk == kHist[n]
                 q  == MinusUnit(p, kk)
             IN  /\ p[kk] > 1
                 /\ H[Flat(p, resolution, dim)] =
                       y[kk] * H[Flat(q, resolution, dim)] - CorrSum(H, q, kk, 0)
       /\ (dim = 2 /\ resolution = 2 /\ y = (0 :> 0 @@ 1 :> 0)
              /\ R = (0 :> 0 @@ 1 :> 1 @@ 2 :> 1 @@ 3 :> 0))
             => H = (0 :> 1 @@ 1 :> 0 @@ 2 :> 0 @@ 3 :> -1)
       /\ (dim = 1 /\ resolution = 3)
             => H = (0 :> 1 @@ 1 :> y[0] @@ 2 :> y[0]*y[0] - R[0])

\* a fill whose correction term and whose linear term both contribute
C4_Witness ==
    /\ variant = "hermite" /\ pc = "returned"
    /\ dim = 2 /\ resolution = 3
    /\ R = (0 :> 2 @@ 1 :> 1 @@ 2 :> 1 @@ 3 :> -1) /\ y = (0 :> 2 @@ 1 :> -1)
    /\ H[4] # 0 /\ H[8] # 0

Swap(a, b, i) == IF i = a THEN b ELSE IF i = b THEN a ELSE i

SwapR(Rm, a, b, d) == [c \in DOMAIN Rm |-> Rm[Swap(a, b, c \div d) * d + Swap(a, b, c % d)]]

SwapVec(v, a, b) == [i \in DOMAIN v |-> v[Swap(a, b, i)]]

\* C6: swapping two modes a, b in R (rows and columns) and in y permutes the
\* tensor the same way: the fill of the swapped inputs, read at the multi-
\* index with coordinates a and b exchanged, gives the original entry.
C6_ModeSwapSymmetry ==
    variant = "hermite" /\ pc = "returned" =>
       \A a \in 0..dim-1 : \A b \in (a+1)..(dim-1) :
          LET H2 == hermite_multidimensional_cpp(SwapR(R, a, b, dim), SwapVec(y, a, b), resolution)
          IN  \A p \in Box(dim, resolution) :
                 H2[Flat(SwapVec(p, a, b), resolution, dim)] = H[Flat(p, resolution, dim)]

\* inputs that the swap changes and a tensor that is not symmetric itself
C6_Witness ==
    /\ variant = "hermite" /\ pc = "returned"
    /\ dim = 2 /\ resolution = 3
    /\ R[0] # R[3] /\ y[0] # y[1] /\ R[1] # 0
    /\ H[Flat((0 :> 3 @@ 1 :> 2), resolution, dim)] # H[Flat((0 :> 2 @@ 1 :> 3), resolution, dim)]

\* ---- properties of the fills guarded by a selection rule ------------------
Rejected(p) ==
    CASE variant = "interferometer"     -> ~interferometer_accept(p, dim \div 2, dim)
      [] variant = "squeezing"          -> ~squeezing_accept(p)
      [] variant = "two_mode_squeezing" -> ~two_mode_accept(p)
      [] OTHER                          -> FALSE

\* C3: in the tensor the interferometer, the single-mode squeezer and the
\* two-mode squeezer return, every entry at a position the selection rule
\* rejects is exactly zero.
C3_RejectedEntriesZero ==
    pc = "returned" /\ variant \in {"interferometer", "squeezing", "two_mode_squeezing"} =>
       \A p \in Box(dim, resolution) :
          Rejected(p) => H[Flat(p, resolution, dim)] = 0

\* C3 holds of the one fill that clears its buffer itself
C3_TwoModeOnly ==
    pc = "returned" /\ variant = "two_mode_squeezing" =>
       \A p \in Box(dim, resolution) :
          Rejected(p) => H[Flat(p, resolution, dim)] = 0

\* C7: a call whose R has the wrong dim is reported at entry: when the call
\* is aborted no buffer has been allocated and no entry written.
C7_ShapeViolationAtEntry ==
    pc = "aborted" => ~allocated /\ defined = {} /\ H = << >>

\* C8: on every accepted pass the entry's value when the correction sum
\* starts is H[flatten(jumpFrom)] * 1.
C8_BaseTermCarried ==
    pc = "loop" /\ jj >= 1 /\ accepted
       /\ variant \in {"interferometer", "squeezing", "two_mode_squeezing"}
       => base = FMul(H[fromCoordinate], 1)

\* C8 holds where the buffer was cleared: an accepted position's same-axis
\* predecessor is a rejected one, so both values are the initial 0
C8_TwoModeOnly ==
    pc = "loop" /\ jj >= 1 /\ accepted /\ variant = "two_mode_squeezing"
       => base = FMul(H[fromCoordinate], 1) /\ base = 0

\* C9: on every accepted pass of the interferometer with changed axis k the
\* correction loop ranges over exactly the axes of the half that does not
\* hold k: num_modes..dim-1 when k < num_modes, 0..num_modes-1 otherwise.
C9_ComplementaryHalf ==
    variant = "interferometer" /\ pc = "loop" /\ jj >= 1 /\ accepted =>
       LET num_modes == dim \div 2
           range     == low_lim..(high_lim - 1)
       IN  /\ range = IF k < num_modes THEN num_modes..(dim - 1)
                      ELSE 0..(num_modes - 1)
           /\ \A i \in range : (i < num_modes) # (k < num_modes)

\* an accepted pass never has its changed axis in the second half, so the
\* branch k > num_modes of the limits is not taken on an accepted pass
AcceptedAxisInFirstHalf ==
    variant = "interferometer" /\ pc = "loop" /\ jj >= 1 /\ accepted => k < dim \div 2

C9_Witness ==
    /\ variant = "interferometer" /\ pc = "loop" /\ accepted
    /\ dim = 4 /\ k = 1
    /\ low_lim = 2 /\ high_lim = 4
    /\ \E i \in 2..3 : jumpFrom[i] > 1

====
